---------------------------- MODULE Spec2Model ----------------------------
(***************************************************************************)
(* MCTS_player of agent.h: the Monte-Carlo tree search agent for (Hollow)  *)
(* NoGo.  One call of take_action is modelled step by step: the empty-cell *)
(* count and budget index, the root and its expansion, the timed loop of   *)
(* rounds (select, expand, simulation, backpropogation, clock reading),    *)
(* greedy_select, delete_tree and the return.                              *)
(*                                                                         *)
(* The board (board.h) is not part of the sources.  It is modelled as the  *)
(* playable region of the 9x9 grid: a row of NCells cells, every other     *)
(* cell of the grid being hollow (never empty, never a liberty).  The      *)
(* legality rule is the collaborator's; two rules are modelled, fixed for  *)
(* a behaviour: "nogo" (a placement is legal on an empty cell when         *)
(* afterwards no group of stones is left without a liberty) and "fill"     *)
(* (every empty cell is legal, so that the last empty cell can be legal,   *)
(* as in the specification's one-empty-cell scenario).                     *)
(***************************************************************************)
EXTENDS Integers, Sequences, FiniteSets, TLC

\* ------------------------------------------------------------------ bounds
\* Playable cells of the region (a row).
NCells == 2
\* The clock reading exceeds the target at the latest after this many rounds.
MaxRounds == 3

\* --------------------------------------------------------------- constants
\* std::numeric_limits<float>::max(), above every score compute_value yields
FltMax == 2147483647
\* number of entries of time_schedule
TableSize == 36
\* side of the grid whose cells take_action counts
BoardSide == 9

VARIABLES
    rules,              \* the legality rule of the board collaborator
    live,               \* the game's board, handed to take_action by reference
    who,                \* MCTS_player::who
    white_space,        \* MCTS_player::white_space
    black_space,        \* MCTS_player::black_space
    step_count,         \* MCTS_player::step_count
    pc,                 \* position inside take_action ("idle": no call)
    nodes,              \* the Node objects of this call, in allocation order
    remain_empty,       \* local of take_action
    budget,             \* the last value read from time_schedule[step_count]
    total_time,         \* local of take_action (tenths of a second)
    total_visit_count,  \* local of take_action
    greedy_node,        \* local of the loop body
    winner,             \* local of take_action
    sim,                \* locals of simulation: state, who, finish
    result,             \* the action take_action returns
    released,           \* the Node objects passed to free(), in order
    leaked,             \* Node objects of earlier calls never passed to free()
    leaves              \* per completed round, the node backpropogation started at

vars == <<rules, live, who, white_space, black_space, step_count, pc, nodes,
          remain_empty, budget, total_time, total_visit_count, greedy_node,
          winner, sim, result, released, leaked, leaves>>

\* ------------------------------------------------------------------- board
Cells == 0 .. (NCells - 1)

Other(w) == IF w = "white" THEN "black" ELSE "white"

EmptyBoard == [c \in Cells |-> "empty"]

Neighbors(c) == {d \in Cells : d = c - 1 \/ d = c + 1}

RECURSIVE Flood(_, _)
Flood(b, g) ==
    LET more == {d \in Cells \ g : \E c \in g : d \in Neighbors(c) /\ b[d] = b[c]}
    IN  IF more = {} THEN g ELSE Flood(b, g \cup more)

\* the empty cells next to the group of stones that holds cell c
Liberties(b, c) ==
    {d \in Cells : b[d] = "empty" /\ \E e \in Flood(b, {c}) : d \in Neighbors(e)}

\* board::place: the verdict of placing a stone of side w on cell c
Legal(b, c, w) ==
    /\ c \in Cells
    /\ w \in {"black", "white"}
    /\ b[c] = "empty"
    /\ \/ rules = "fill"
       \/ LET after == [b EXCEPT ![c] = w]
          IN  \A d \in {c} \cup Neighbors(c) :
                  after[d] # "empty" => Liberties(after, d) # {}

\* action::place(i, w) and the default action()
Place(i, w) == [position |-> i, who |-> w]

NoMove == [position |-> -1, who |-> "unknown"]

\* action::place::apply on a board where the move is legal
Apply(b, m) == [b EXCEPT ![m.position] = m.who]

IsLegalMove(b, m) == Legal(b, m.position, m.who)

CountEmpty(b) == Cardinality({c \in Cells : b[c] = "empty"})

\* -------------------------------------------------------------------- Node
NewNode == [state |-> EmptyBoard, win_count |-> 0, visit_count |-> 0,
            value |-> FltMax, parent |-> 0, last_action |-> NoMove,
            children |-> <<>>, node_who |-> "unknown"]

\* ------------------------------------------------------------ random moves
\* the candidate lists the constructor builds: cell i at index i
InitSpace(w) == [i \in 1 .. NCells |-> Place(i - 1, w)]

\* every order std::shuffle can leave a list in
Shuffles(space) ==
    {[i \in 1 .. Len(space) |-> space[f[i]]] :
        f \in {g \in [1 .. Len(space) -> 1 .. Len(space)] :
                  \A i, j \in 1 .. Len(space) : i # j => g[i] # g[j]}}

\* index of the first move of the list that is legal on b, 0 when none is
RECURSIVE FirstLegal(_, _, _)
FirstLegal(b, space, i) ==
    IF i > Len(space) THEN 0
    ELSE IF IsLegalMove(b, space[i]) THEN i
    ELSE FirstLegal(b, space, i + 1)

\* ------------------------------------------------------------------ expand
ExpandMutNoLegalityCheck(b, m) == b[m.position] = "empty"

\* the test of expand: child_move.apply(after) == board::legal
ExpandAccepts(b, m) == IsLegalMove(b, m)

ExpandChildMutKeepsParentSide(ns, p, m, child_who) ==
    [NewNode EXCEPT !.node_who = ns[p].node_who,
                    !.state = Apply(ns[p].state, m),
                    !.parent = p,
                    !.last_action = m]

\* lines 169-173: the Node expand creates for move m of parent p
ExpandChild(ns, p, m, child_who) ==
    [NewNode EXCEPT !.node_who = child_who,
                    !.state = Apply(ns[p].state, m),
                    !.parent = p,
                    !.last_action = m]

RECURSIVE ExpandScan(_, _, _, _, _)
ExpandScan(ns, p, space, child_who, i) ==
    IF i > Len(space) THEN ns
    ELSE IF ExpandAccepts(ns[p].state, space[i])
         THEN LET child == ExpandChild(ns, p, space[i], child_who)
                  id == Len(ns) + 1
                  withChild == [Append(ns, child) EXCEPT
                                   ![p].children = Append(@, id)]
              IN  ExpandScan(withChild, p, space, child_who, i + 1)
         ELSE ExpandScan(ns, p, space, child_who, i + 1)

expandMutOwnList(ns, p, ws, bs) ==
    IF ns[p].node_who = "black" THEN ExpandScan(ns, p, bs, "white", 1)
    ELSE IF ns[p].node_who = "white" THEN ExpandScan(ns, p, ws, "black", 1)
    ELSE ns

expandMutSkipsFirstMove(ns, p, ws, bs) ==
    IF ns[p].node_who = "black" THEN ExpandScan(ns, p, ws, "white", 2)
    ELSE IF ns[p].node_who = "white" THEN ExpandScan(ns, p, bs, "black", 2)
    ELSE ns

expand(ns, p, ws, bs) ==
    IF ns[p].node_who = "black" THEN ExpandScan(ns, p, ws, "white", 1)
    ELSE IF ns[p].node_who = "white" THEN ExpandScan(ns, p, bs, "black", 1)
    ELSE ns

\* ----------------------------------------------------------- compute_value
\* ln(t) * 10^8 for t = 1 .. 8
LnTable == <<0, 69314718, 109861229, 138629436, 160943791, 179175947,
             194591015, 207944154>>

\* bisection for the floor of the square root of b[1] between b[2] and b[3]
SqrtSearch[b \in Nat \X Nat \X Nat] ==
    IF b[2] >= b[3] THEN b[2]
    ELSE LET mid == (b[2] + b[3] + 1) \div 2
         IN  IF mid * mid <= b[1] THEN SqrtSearch[<<b[1], mid, b[3]>>]
             ELSE SqrtSearch[<<b[1], b[2], mid - 1>>]

\* floor of the square root, n < 2^31
ISqrt(n) == SqrtSearch[<<n, 0, 46340>>]

\* win_count/visit_count + 0.5 * sqrt(log(total)/visit_count), in units of
\* 1/10000; the order of any two scores with total <= 8 is that of the doubles
compute_value(node, total) ==
    [node EXCEPT !.value = (node.win_count * 10000) \div node.visit_count
                           + ISqrt(LnTable[total] \div node.visit_count) \div 2]

\* ------------------------------------------------------------------ select
RECURSIVE SelectScanMutLastMax(_, _, _, _, _)
SelectScanMutLastMax(ns, ch, i, max_value, select_index) ==
    IF i > Len(ch) THEN select_index
    ELSE IF max_value <= ns[ch[i]].value
         THEN SelectScanMutLastMax(ns, ch, i + 1, ns[ch[i]].value, i)
         ELSE SelectScanMutLastMax(ns, ch, i + 1, max_value, select_index)

\* lines 147-154: the scan over the children, from child i on
RECURSIVE SelectScan(_, _, _, _, _)
SelectScan(ns, ch, i, max_value, select_index) ==
    IF i > Len(ch) THEN select_index
    ELSE IF max_value < ns[ch[i]].value
         THEN SelectScan(ns, ch, i + 1, ns[ch[i]].value, i)
         ELSE SelectScan(ns, ch, i + 1, max_value, select_index)

SelectIndexMutSeededWithMax(ns, ch) == SelectScan(ns, ch, 1, FltMax, 1)

\* the index (from 1) the scan of select ends with: max_value = 0, index = first
SelectIndex(ns, ch) == SelectScan(ns, ch, 1, 0, 1)

RECURSIVE select(_, _)
select(ns, node) ==
    IF ns[node].children = <<>> THEN node
    ELSE select(ns, ns[node].children[SelectIndex(ns, ns[node].children)])

\* --------------------------------------------------------- backpropogation
BackpropWinMutLeafSide(ns, root, node, w) == w # ns[node].node_who

\* lines 233-235: one verdict for the whole walk, against the root's side
BackpropWin(ns, root, node, w) == w # ns[root].node_who

BackpropCountMutVisitTwice(node, win) ==
    IF win THEN [node EXCEPT !.visit_count = @ + 2, !.win_count = @ + 1]
    ELSE [node EXCEPT !.visit_count = @ + 2]

BackpropCountMutWinFromVisit(node, win) ==
    IF win THEN [node EXCEPT !.visit_count = @ + 1,
                             !.win_count = node.visit_count + 2]
    ELSE [node EXCEPT !.visit_count = @ + 1]

\* lines 237-239: the counts of one node of the path
BackpropCount(node, win) ==
    IF win THEN [node EXCEPT !.visit_count = @ + 1, !.win_count = @ + 1]
    ELSE [node EXCEPT !.visit_count = @ + 1]

BackpropEndsMutBelowRoot(ns, node) == node = 0 \/ ns[node].parent = 0

\* line 236: the walk ends past the root, at the null parent
BackpropEnds(ns, node) == node = 0

\* lines 236-242: the nodes the walk visits, from node up the parent links
RECURSIVE BackpropPath(_, _)
BackpropPath(ns, node) ==
    IF BackpropEnds(ns, node) THEN {}
    ELSE {node} \cup BackpropPath(ns, ns[node].parent)

BackpropWalkMutSkipsLeaf(ns, node, win, total) ==
    [n \in 1 .. Len(ns) |->
        IF n \in BackpropPath(ns, node) /\ n # node
        THEN compute_value(BackpropCount(ns[n], win), total)
        ELSE ns[n]]

\* each node of the walk is counted and its value recomputed, once
BackpropWalk(ns, node, win, total) ==
    [n \in 1 .. Len(ns) |->
        IF n \in BackpropPath(ns, node)
        THEN compute_value(BackpropCount(ns[n], win), total)
        ELSE ns[n]]

backpropogation(ns, root, node, w, total) ==
    BackpropWalk(ns, node, BackpropWin(ns, root, node, w), total)

\* ----------------------------------------------------------- greedy_select
RECURSIVE GreedyScan(_, _, _, _, _)
GreedyScan(ns, ch, i, max_visit_count, child_index) ==
    IF i > Len(ch) THEN child_index
    ELSE IF ns[ch[i]].visit_count > max_visit_count
         THEN GreedyScan(ns, ch, i + 1, ns[ch[i]].visit_count, i)
         ELSE GreedyScan(ns, ch, i + 1, max_visit_count, child_index)

\* child_index of greedy_select, from 1; 0 stands for the code's -1
GreedyIndex(ns, node) == GreedyScan(ns, ns[node].children, 1, 0, 0)

greedy_select(ns, node) ==
    IF GreedyIndex(ns, node) = 0 THEN NoMove
    ELSE ns[ns[node].children[GreedyIndex(ns, node)]].last_action

\* ------------------------------------------------------------- delete_tree
\* free(p) after the calls of rel: p joins the released objects
Free(rel, p) == Append(rel, p)

RECURSIVE delete_tree(_, _)
RECURSIVE DeleteChildren(_, _, _)
\* lines 247-251 from child i on: the objects released, in order
DeleteChildren(ns, node, i) ==
    IF i > Len(ns[node].children) THEN <<>>
    ELSE Free(delete_tree(ns, ns[node].children[i]), ns[node].children[i])
         \o DeleteChildren(ns, node, i + 1)

delete_treeMutNoRecursion(ns, node) ==
    [i \in 1 .. Len(ns[node].children) |-> ns[node].children[i]]

\* the objects delete_tree(node) passes to free(), in order
delete_tree(ns, node) ==
    IF ns[node].children # <<>> THEN DeleteChildren(ns, node, 1) ELSE <<>>

\* line 252: delete_tree clears the children of the node it is called on, that
\* is of the root and of every child it then releases
ChildrenCleared(ns, rel) ==
    [n \in 1 .. Len(ns) |->
        IF n = 1 \/ \E i \in 1 .. Len(rel) : rel[i] = n
        THEN [ns[n] EXCEPT !.children = <<>>]
        ELSE ns[n]]

\* ----------------------------------------------------------- time_schedule
\* the table, in tenths of a second
time_schedule == <<2, 2, 2, 4, 4, 4, 7, 7, 7, 14, 14, 14,
                   17, 17, 17, 20, 20, 20, 17, 17, 17, 17, 17, 17,
                   10, 10, 10, 5, 5, 5, 4, 4, 4, 2, 2, 2>>

\* what a read outside the array can yield: a negative, a zero, a positive value
OutOfRangeReads == {-1, 0, 2}

\* the values the read time_schedule[i] can yield
TimeScheduleReads(i) ==
    IF i \in 0 .. (TableSize - 1) THEN {time_schedule[i + 1]} ELSE OutOfRangeReads

\* step_count = 36 - remain_empty / 2
StepCount(empties) == TableSize - empties \div 2

\* total_time < 0.95 * time_schedule[step_count]
BelowTarget(t, b) == 100 * t < 95 * b

\* the readings clock() can give at the end of a round, in tenths of a second:
\* no visible progress, or 2.0 s, which is beyond every target of the table
ClockReadings(rounds) ==
    IF rounds >= MaxRounds THEN {20} ELSE {0, 20}

\* ------------------------------------------------------------------ states
NoSim == [state |-> EmptyBoard, who |-> "unknown", finish |-> TRUE]

\* the agent as constructed, before any call
Constructed ==
    /\ rules \in {"nogo", "fill"}
    /\ live = EmptyBoard
    /\ who \in {"black", "white"}
    /\ white_space = InitSpace("white")
    /\ black_space = InitSpace("black")
    /\ step_count = 0
    /\ nodes = <<>>
    /\ budget = 0
    /\ total_time = 0
    /\ total_visit_count = 0
    /\ greedy_node = 0
    /\ winner = "unknown"
    /\ sim = NoSim
    /\ result = NoMove
    /\ released = <<>>
    /\ leaked = 0
    /\ leaves = <<>>

Init ==
    /\ Constructed
    /\ pc = "idle"
    /\ remain_empty = 0

agentFields == <<rules, who, white_space, black_space, step_count>>
callLocals == <<nodes, remain_empty, budget, total_time, total_visit_count,
                greedy_node, winner, sim, result, released, leaves>>

\* --------------------------------------------------------- the game around
\* a new episode starts on the empty board
NewEpisode ==
    /\ pc = "idle"
    /\ live # EmptyBoard
    /\ live' = EmptyBoard
    /\ UNCHANGED <<agentFields, pc, callLocals, leaked>>

\* a legal stone of either side is placed between two calls
EnvPlace ==
    /\ pc = "idle"
    /\ \E c \in Cells, w \in {"black", "white"} :
          /\ Legal(live, c, w)
          /\ live' = Apply(live, Place(c, w))
    /\ UNCHANGED <<agentFields, pc, callLocals, leaked>>

\* ------------------------------------------------------------- take_action
\* lines 272-289: count the empty cells, set step_count, build and expand the root
TakeActionBegin ==
    /\ pc = "idle"
    /\ remain_empty' = CountEmpty(live)
    /\ step_count' = StepCount(CountEmpty(live))
    /\ nodes' = expand(<<[NewNode EXCEPT !.state = live,
                                         !.node_who = Other(who)]>>,
                       1, white_space, black_space)
    /\ total_time' = 0
    /\ total_visit_count' = 0
    /\ pc' = "loop"
    /\ UNCHANGED <<rules, live, who, white_space, black_space, budget, greedy_node,
                   winner, sim, result, released, leaked, leaves>>

\* line 290: the loop condition, reading time_schedule[step_count]
LoopCheck ==
    /\ pc = "loop"
    /\ \E b \in TimeScheduleReads(step_count) :
          /\ budget' = b
          /\ pc' = IF BelowTarget(total_time, b) THEN "select" ELSE "finalize"
    /\ UNCHANGED <<live, agentFields, nodes, remain_empty, total_time,
                   total_visit_count, greedy_node, winner, sim, result,
                   released, leaked, leaves>>

\* line 292
Select ==
    /\ pc = "select"
    /\ greedy_node' = select(nodes, 1)
    /\ pc' = "expand"
    /\ UNCHANGED <<live, agentFields, nodes, remain_empty, budget, total_time,
                   total_visit_count, winner, sim, result, released, leaked,
                   leaves>>

\* line 293
Expand ==
    /\ pc = "expand"
    /\ nodes' = expand(nodes, greedy_node, white_space, black_space)
    /\ pc' = "simulate"
    /\ UNCHANGED <<live, agentFields, remain_empty, budget, total_time,
                   total_visit_count, greedy_node, winner, sim, result,
                   released, leaked, leaves>>

\* lines 195-200: simulation starts on a copy of the node's state
SimulationBegin ==
    /\ pc = "simulate"
    /\ sim' = [state |-> nodes[greedy_node].state,
               who |-> nodes[greedy_node].node_who,
               finish |-> FALSE]
    /\ pc' = "playout"
    /\ UNCHANGED <<live, agentFields, nodes, remain_empty, budget, total_time,
                   total_visit_count, greedy_node, winner, result, released,
                   leaked, leaves>>

SimNextWhoMutSameSide(w) == w

\* the side that moves in the next turn of the playout
SimNextWho(w) == IF w = "white" THEN "black" ELSE "white"

SimScanMutFinishNeverSet(s, w, space) ==
    LET k == FirstLegal(s.state, space, 1)
    IN  IF k = 0 THEN [s EXCEPT !.who = w]
        ELSE [s EXCEPT !.who = w, !.state = Apply(@, space[k])]

\* lines 205-215: finish = true, then the first legal move of the shuffled list
\* is applied and finish is false again
SimScan(s, w, space) ==
    LET k == FirstLegal(s.state, space, 1)
    IN  IF k = 0 THEN [s EXCEPT !.who = w, !.finish = TRUE]
        ELSE [s EXCEPT !.who = w, !.state = Apply(@, space[k])]

\* lines 201-228: one turn of the playout
SimulationTurn ==
    /\ pc = "playout"
    /\ sim.finish = FALSE
    /\ LET w == SimNextWho(sim.who)
       IN  \/ /\ w = "black"
              /\ \E sh \in Shuffles(black_space) :
                    /\ black_space' = sh
                    /\ sim' = SimScan(sim, w, sh)
              /\ UNCHANGED white_space
           \/ /\ w = "white"
              /\ \E sh \in Shuffles(white_space) :
                    /\ white_space' = sh
                    /\ sim' = SimScan(sim, w, sh)
              /\ UNCHANGED black_space
    /\ UNCHANGED <<rules, live, who, step_count, pc, nodes, remain_empty, budget,
                   total_time, total_visit_count, greedy_node, winner, result,
                   released, leaked, leaves>>

\* line 229 and 294
SimulationReturn ==
    /\ pc = "playout"
    /\ sim.finish = TRUE
    /\ winner' = (IF sim.who = "white" THEN "black" ELSE "white")
    /\ sim' = NoSim
    /\ pc' = "backprop"
    /\ UNCHANGED <<live, agentFields, nodes, remain_empty, budget, total_time,
                   total_visit_count, greedy_node, result, released, leaked,
                   leaves>>

\* lines 296-299: count the round, backpropogation, read the clock
Backpropagate ==
    /\ pc = "backprop"
    /\ total_visit_count' = total_visit_count + 1
    /\ nodes' = backpropogation(nodes, 1, greedy_node, winner,
                                total_visit_count + 1)
    /\ leaves' = Append(leaves, greedy_node)
    /\ total_time' \in {t \in ClockReadings(total_visit_count + 1) :
                           t >= total_time}
    /\ greedy_node' = 0
    /\ pc' = "loop"
    /\ UNCHANGED <<live, agentFields, remain_empty, budget, winner, sim,
                   result, released, leaked>>

\* line 301
Finalize ==
    /\ pc = "finalize"
    /\ result' = greedy_select(nodes, 1)
    /\ pc' = "delete"
    /\ UNCHANGED <<live, agentFields, nodes, remain_empty, budget, total_time,
                   total_visit_count, greedy_node, winner, sim, released,
                   leaked, leaves>>

\* lines 302-303: delete_tree(root); free(root)
DeleteTree ==
    /\ pc = "delete"
    /\ released' = Free(delete_tree(nodes, 1), 1)
    /\ nodes' = ChildrenCleared(nodes, delete_tree(nodes, 1))
    /\ pc' = "done"
    /\ UNCHANGED <<live, agentFields, remain_empty, budget, total_time,
                   total_visit_count, greedy_node, winner, sim, result,
                   leaked, leaves>>

\* the Node objects of this call that were never released
Unreleased == {n \in 1 .. Len(nodes) : \A i \in 1 .. Len(released) : released[i] # n}

\* line 304: the call returns; its locals are gone
Return ==
    /\ pc = "done"
    /\ leaked' = leaked + Cardinality(Unreleased)
    /\ nodes' = <<>>
    /\ remain_empty' = 0
    /\ budget' = 0
    /\ total_time' = 0
    /\ total_visit_count' = 0
    /\ winner' = "unknown"
    /\ result' = NoMove
    /\ released' = <<>>
    /\ leaves' = <<>>
    /\ pc' = "idle"
    /\ UNCHANGED <<live, agentFields, greedy_node, sim>>

Next ==
    \/ NewEpisode
    \/ EnvPlace
    \/ TakeActionBegin
    \/ LoopCheck
    \/ Select
    \/ Expand
    \/ SimulationBegin
    \/ SimulationTurn
    \/ SimulationReturn
    \/ Backpropagate
    \/ Finalize
    \/ DeleteTree
    \/ Return

Spec == Init /\ [][Next]_vars

\* the steps of a call once it has begun: the program runs on until it returns
Running ==
    \/ LoopCheck
    \/ Select
    \/ Expand
    \/ SimulationBegin
    \/ SimulationTurn
    \/ SimulationReturn
    \/ Backpropagate
    \/ Finalize
    \/ DeleteTree
    \/ Return

FairSpec == Init /\ [][Next]_vars /\ WF_vars(Running)

\* ------------------------------------------- the budget index, on its own
\* lines 278-285 and the read of line 290 for every count of empty cells of
\* the 9x9 grid
IdxInit ==
    /\ Constructed
    /\ pc = "count"
    /\ remain_empty \in 0 .. (BoardSide * BoardSide)

IdxStepCount ==
    /\ pc = "count"
    /\ step_count' = StepCount(remain_empty)
    /\ pc' = "lookup"
    /\ UNCHANGED <<rules, live, who, white_space, black_space, nodes,
                   remain_empty, budget, total_time, total_visit_count,
                   greedy_node, winner, sim, result, released, leaked, leaves>>

IdxLookup ==
    /\ pc = "lookup"
    /\ \E b \in TimeScheduleReads(step_count) :
          /\ budget' = b
          /\ pc' = IF BelowTarget(total_time, b) THEN "round" ELSE "finalized"
    /\ UNCHANGED <<rules, live, agentFields, nodes, remain_empty, total_time,
                   total_visit_count, greedy_node, winner, sim, result,
                   released, leaked, leaves>>

IdxNext == IdxStepCount \/ IdxLookup

IdxSpec == IdxInit /\ [][IdxNext]_vars

\* ------------------------------------------------------------ for the claims
\* the Node objects of the call are allocated and none is released yet
TreeAlive ==
    pc \in {"loop", "select", "expand", "simulate", "playout", "backprop",
            "finalize", "delete"}

\* side w has a legal placement on board b
HasLegal(b, w) == \E c \in Cells : Legal(b, c, w)

\* node m is node n or one of its descendants
RECURSIVE AtOrBelow(_, _, _)
AtOrBelow(ns, m, n) ==
    \/ m = n
    \/ ns[m].parent # 0 /\ AtOrBelow(ns, ns[m].parent, n)

\* C1: the action take_action returns is the no-move action or a placement of
\* the agent's own side that is legal on the board it was given.
C1_ReturnedActionLegal ==
    pc = "done" =>
        \/ result = NoMove
        \/ result.who = who /\ Legal(live, result.position, who)

C1_Witness == pc = "done" /\ result # NoMove /\ total_visit_count >= 2

\* C2: whenever the agent's side has a legal placement on the board given,
\* take_action returns a placement and not the no-move action, whatever value
\* the budget lookup gave.
C2_PlacementWheneverLegal ==
    (pc = "done" /\ HasLegal(live, who)) => result # NoMove

\* C3: the index used to read the 36-entry time_schedule is within 0..35
\* whenever the table is read, for every count of empty cells.
C3_IndexInTableRange ==
    pc \in {"lookup", "loop"} => step_count \in 0 .. (TableSize - 1)

\* C4: on a board where the agent's side has no legal placement the root has
\* no children, every round selects and simulates from the root itself, and
\* the call returns the no-move action.
C4_NoLegalMoveHandled ==
    ~HasLegal(live, who) =>
        /\ TreeAlive => Len(nodes) = 1 /\ nodes[1].children = <<>>
        /\ pc \in {"expand", "simulate", "playout", "backprop"} => greedy_node = 1
        /\ pc = "done" => result = NoMove

C4_Witness ==
    /\ pc = "done"
    /\ ~HasLegal(live, who)
    /\ total_visit_count >= 2
    /\ result = NoMove

\* C5: with a clock that passes the target, a call that has begun returns;
\* every round that has started is completed, the loop is left only at the time
\* check between rounds, and a playout only adds stones to empty cells of its
\* private copy of the node's state.
C5_CallTerminates ==
    /\ []<>(pc = "idle")
    /\ [][pc' = "finalize" => pc = "loop"]_vars
    /\ [][pc = "backprop" => pc' = "loop"]_vars
    /\ [](pc = "playout" =>
            \A c \in Cells :
                nodes[greedy_node].state[c] # "empty"
                    => sim.state[c] = nodes[greedy_node].state[c])

C5_Witness ==
    /\ pc = "playout"
    /\ sim.finish
    /\ total_visit_count >= 1
    /\ CountEmpty(nodes[greedy_node].state) - CountEmpty(sim.state) >= 1

\* C6: greedy_select returns the last move of the first root child, in
\* insertion order, among those with the highest visit_count.
C6_GreedyPicksMostVisited ==
    (pc = "delete" /\ nodes[1].children # <<>>) =>
        LET ch == nodes[1].children
            best == CHOOSE i \in 1 .. Len(ch) :
                        /\ \A j \in 1 .. Len(ch) :
                               nodes[ch[j]].visit_count <= nodes[ch[i]].visit_count
                        /\ \A j \in 1 .. (i - 1) :
                               nodes[ch[j]].visit_count < nodes[ch[i]].visit_count
        IN  result = nodes[ch[best]].last_action

\* C7: after N completed rounds the root's visit_count is N, and each node's
\* visit_count is the number of rounds whose selected leaf was the node or one
\* of its descendants.
C7_VisitConservation ==
    nodes # <<>> =>
        /\ Len(leaves) = total_visit_count
        /\ nodes[1].visit_count = total_visit_count
        /\ \A n \in 1 .. Len(nodes) :
               nodes[n].visit_count =
                   Cardinality({r \in 1 .. Len(leaves) :
                                   AtOrBelow(nodes, leaves[r], n)})

C7_Witness ==
    /\ pc = "loop"
    /\ total_visit_count >= 3
    /\ \E n \in 2 .. Len(nodes) :
          /\ nodes[n].visit_count >= 2
          /\ \E r \in 1 .. Len(leaves) :
                leaves[r] # n /\ AtOrBelow(nodes, leaves[r], n)

\* C8: every node has 0 <= win_count <= visit_count.
C8_WinCountBound ==
    \A n \in 1 .. Len(nodes) :
        0 <= nodes[n].win_count /\ nodes[n].win_count <= nodes[n].visit_count

C8_Witness ==
    /\ pc = "loop"
    /\ \E n \in 2 .. Len(nodes) : nodes[n].win_count >= 1
    /\ nodes[1].visit_count >= 2

\* C9: every non-root node is listed once in its parent's children, was made
\* by a placement of the opponent of the parent's node_side that is legal on
\* the parent's state, holds the state after that placement and the side that
\* made it; the root holds the board given, the opponent of the agent's side
\* and no parent.
C9_EdgeLegality ==
    TreeAlive =>
        /\ nodes[1].parent = 0
        /\ nodes[1].node_who = Other(who)
        /\ nodes[1].state = live
        /\ \A n \in 2 .. Len(nodes) :
               LET p == nodes[n].parent
                   m == nodes[n].last_action
               IN  /\ p \in 1 .. Len(nodes)
                   /\ Cardinality({i \in 1 .. Len(nodes[p].children) :
                                      nodes[p].children[i] = n}) = 1
                   /\ m.who = Other(nodes[p].node_who)
                   /\ Legal(nodes[p].state, m.position, m.who)
                   /\ nodes[n].state = Apply(nodes[p].state, m)
                   /\ nodes[n].node_who = m.who

C9_Witness ==
    /\ TreeAlive
    /\ \E n \in 2 .. Len(nodes) : nodes[n].parent > 1

\* C10: when take_action returns, every Node it created has been released
\* exactly once, each after all of its descendants, and no Node of an earlier
\* call is left allocated.
C10_EveryNodeReleasedOnce ==
    /\ leaked = 0
    /\ pc = "idle" => nodes = <<>>
    /\ pc = "done" =>
          /\ \A n \in 1 .. Len(nodes) :
                 Cardinality({i \in 1 .. Len(released) : released[i] = n}) = 1
          /\ \A i \in 1 .. Len(released) :
                 /\ released[i] \in 1 .. Len(nodes)
                 /\ \A m \in 1 .. Len(nodes) :
                        (m # released[i] /\ AtOrBelow(nodes, m, released[i]))
                            => \E j \in 1 .. (i - 1) : released[j] = m

C10_Witness ==
    /\ pc = "done"
    /\ \E n \in 2 .. Len(nodes) : nodes[n].parent > 1

\* C12: take_action leaves the agent's candidate lists as it found them: at
\* every call boundary white_space and black_space hold the moves in the order
\* the constructor gave them, so the root's children of a call do not depend on
\* earlier calls.
C12_FieldsUnchangedByCall ==
    pc = "idle" =>
        /\ white_space = InitSpace("white")
        /\ black_space = InitSpace("black")

\* the placements of the side to move next that are legal on the state of n
LegalPlacements(ns, n) ==
    {Place(c, Other(ns[n].node_who)) :
        c \in {d \in Cells : Legal(ns[n].state, d, Other(ns[n].node_who))}}

\* the moves that lead to the children of n
ChildMoves(ns, n) ==
    {ns[ns[n].children[i]].last_action : i \in 1 .. Len(ns[n].children)}

\* C13: the children of every node are none, or one child per legal placement
\* of the opponent of node_who on the node's state, none missing and none
\* twice, whatever order the playouts left the candidate lists in; the node
\* expand was just applied to has one child per legal placement, and expand is
\* only applied to a node without children.
C13_ExpansionComplete ==
    TreeAlive =>
        /\ \A n \in 1 .. Len(nodes) :
               \/ nodes[n].children = <<>>
               \/ /\ ChildMoves(nodes, n) = LegalPlacements(nodes, n)
                  /\ Len(nodes[n].children)
                         = Cardinality(LegalPlacements(nodes, n))
        /\ pc = "expand" => nodes[greedy_node].children = <<>>
        /\ pc \in {"simulate", "playout", "backprop"} =>
               /\ ChildMoves(nodes, greedy_node)
                      = LegalPlacements(nodes, greedy_node)
               /\ Len(nodes[greedy_node].children)
                      = Cardinality(LegalPlacements(nodes, greedy_node))
        /\ pc = "loop" /\ total_visit_count = 0 =>
               /\ ChildMoves(nodes, 1) = LegalPlacements(nodes, 1)
               /\ Len(nodes[1].children) = Cardinality(LegalPlacements(nodes, 1))

C13_Witness ==
    /\ pc = "simulate"
    /\ greedy_node > 1
    /\ nodes[greedy_node].children # <<>>
    /\ Len(nodes[1].children) >= 2
    /\ white_space # InitSpace("white") \/ black_space # InitSpace("black")

\* the position of node m in the children of its parent
ChildPos(ns, m) ==
    CHOOSE i \in 1 .. Len(ns[ns[m].parent].children) :
        ns[ns[m].parent].children[i] = m

\* the nodes select went through below the root to reach the leaf
Descent(ns, leaf) == {m \in 2 .. Len(ns) : AtOrBelow(ns, leaf, m)}

\* C14: at every step of the descent of select, when the current node has a
\* child with visit_count = 0 the child chosen is the first such child in
\* insertion order; a visited child is not chosen while a sibling is unvisited.
C14_UnvisitedFirst ==
    pc = "expand" =>
        \A m \in Descent(nodes, greedy_node) :
            LET ch == nodes[nodes[m].parent].children
            IN  (\E i \in 1 .. Len(ch) : nodes[ch[i]].visit_count = 0) =>
                    /\ nodes[m].visit_count = 0
                    /\ \A j \in 1 .. (ChildPos(nodes, m) - 1) :
                           nodes[ch[j]].visit_count > 0

C14_Witness ==
    /\ pc = "expand"
    /\ greedy_node > 1
    /\ nodes[greedy_node].visit_count = 0
    /\ ChildPos(nodes, greedy_node) >= 2
    /\ nodes[nodes[nodes[greedy_node].parent].children[1]].visit_count >= 1

\* C15: backpropogation from the selected leaf with winner w adds exactly 1 to
\* visit_count of every node from the leaf up to and including the root, adds
\* 1 to win_count of all of them when w differs from the root's node_who and
\* of none of them otherwise, and leaves the counts of every other node as
\* they were.
C15_BackpropFrame ==
    [][pc = "backprop" =>
          /\ Len(nodes') = Len(nodes)
          /\ \A n \in 1 .. Len(nodes) :
                 IF AtOrBelow(nodes, greedy_node, n)
                 THEN /\ nodes'[n].visit_count = nodes[n].visit_count + 1
                      /\ nodes'[n].win_count =
                             nodes[n].win_count
                                 + (IF winner # nodes[1].node_who THEN 1 ELSE 0)
                 ELSE /\ nodes'[n].visit_count = nodes[n].visit_count
                      /\ nodes'[n].win_count = nodes[n].win_count]_vars

C15_Witness ==
    /\ pc = "loop"
    /\ leaves # <<>>
    /\ LET leaf == leaves[Len(leaves)]
       IN  /\ leaf > 1
           /\ nodes[leaf].win_count = 1
           /\ nodes[leaf].node_who # nodes[1].node_who
           /\ nodes[1].win_count >= 1
           /\ \E n \in 2 .. Len(nodes) :
                  ~AtOrBelow(nodes, leaf, n) /\ nodes[n].visit_count >= 1

\* the stones a playout has placed on its copy of the state of the leaf
StonesPlayed == CountEmpty(nodes[greedy_node].state) - CountEmpty(sim.state)

\* C16: a playout starts on a copy of the node's state, its sides alternate
\* beginning with the opponent of node_who, each turn places one legal stone of
\* the side to move, it ends at the first side without a legal placement and
\* returns the opponent of that side; no tree node is changed by it.
C16_PlayoutAlternatesAndReturns ==
    /\ [][pc = "simulate" =>
             /\ sim'.state = nodes[greedy_node].state
             /\ sim'.who = nodes[greedy_node].node_who
             /\ ~sim'.finish
             /\ nodes' = nodes]_vars
    /\ [][(pc = "playout" /\ ~sim.finish) =>
             /\ sim'.who = Other(sim.who)
             /\ IF HasLegal(sim.state, sim'.who)
                THEN /\ ~sim'.finish
                     /\ \E c \in Cells :
                            /\ Legal(sim.state, c, sim'.who)
                            /\ sim'.state = Apply(sim.state, Place(c, sim'.who))
                ELSE sim'.finish /\ sim'.state = sim.state
             /\ nodes' = nodes]_vars
    /\ [][(pc = "playout" /\ sim.finish) =>
             /\ ~HasLegal(sim.state, sim.who)
             /\ winner' = Other(sim.who)
             /\ nodes' = nodes]_vars
    /\ [](pc = "playout" =>
            sim.who = (IF (StonesPlayed % 2 = 0) = sim.finish
                       THEN Other(nodes[greedy_node].node_who)
                       ELSE nodes[greedy_node].node_who))

C16_Witness ==
    /\ pc = "playout"
    /\ sim.finish
    /\ greedy_node > 1
    /\ StonesPlayed = 1
    /\ sim.who = nodes[greedy_node].node_who
    /\ nodes[greedy_node].children # <<>>

\* the first position, in insertion order, of a child with the highest value
FirstMax(ns, ch) ==
    CHOOSE i \in 1 .. Len(ch) :
        /\ \A j \in 1 .. Len(ch) : ns[ch[j]].value <= ns[ch[i]].value
        /\ \A j \in 1 .. (i - 1) : ns[ch[j]].value < ns[ch[i]].value

\* C17: select descends from the root while the current node has children and
\* returns a node without children; the child taken at each step is the first
\* in insertion order with the highest value among its siblings, which is what
\* the scan seeded with 0 and the first index gives since no value is negative.
C17_SelectFirstMax ==
    TreeAlive =>
        /\ \A n \in 1 .. Len(nodes) :
               /\ nodes[n].value >= 0
               /\ nodes[n].children # <<>> =>
                      SelectIndex(nodes, nodes[n].children)
                          = FirstMax(nodes, nodes[n].children)
        /\ pc = "expand" =>
               /\ nodes[greedy_node].children = <<>>
               /\ \A m \in Descent(nodes, greedy_node) :
                      ChildPos(nodes, m)
                          = FirstMax(nodes, nodes[nodes[m].parent].children)

C17_Witness ==
    /\ pc = "expand"
    /\ \E m \in Descent(nodes, greedy_node) :
          /\ ChildPos(nodes, m) >= 2
          /\ \A i \in 1 .. Len(nodes[nodes[m].parent].children) :
                 nodes[nodes[nodes[m].parent].children[i]].visit_count >= 1

\* the sum of visit_count over the children ch, from child i on
RECURSIVE SumVisits(_, _, _)
SumVisits(ns, ch, i) ==
    IF i > Len(ch) THEN 0
    ELSE ns[ch[i]].visit_count + SumVisits(ns, ch, i + 1)

\* C18: between rounds a root with children has visit_count equal to the sum
\* of its children's visit_count and every other node with children has 1 more
\* than that sum; a node acquires children only while it has no visit: the
\* root when the call builds it, any other node as the selected leaf of the
\* round that gives it its first visit.
C18_VisitSumOverChildren ==
    /\ [](pc = "loop" =>
            \A n \in 1 .. Len(nodes) :
                nodes[n].children # <<>> =>
                    nodes[n].visit_count
                        = (IF n = 1 THEN 0 ELSE 1)
                              + SumVisits(nodes, nodes[n].children, 1))
    /\ [][(pc \in {"select", "expand", "simulate", "playout", "backprop"}) =>
             \A n \in 1 .. Len(nodes) :
                 nodes'[n].children # nodes[n].children =>
                     /\ pc = "expand"
                     /\ n = greedy_node
                     /\ nodes[n].children = <<>>
                     /\ nodes[n].visit_count = 0]_vars
    /\ [][pc = "idle" =>
             \A n \in 1 .. Len(nodes') : nodes'[n].visit_count = 0]_vars
    /\ [][(pc = "backprop" /\ nodes[greedy_node].children # <<>>) =>
             nodes'[greedy_node].visit_count = 1]_vars

C18_Witness ==
    /\ pc = "loop"
    /\ Len(nodes[1].children) >= 2
    /\ \E n \in 2 .. Len(nodes) :
          /\ nodes[n].children # <<>>
          /\ nodes[n].visit_count >= 2
          /\ nodes[nodes[n].children[1]].visit_count >= 1

\* C19: compute_value runs only with a node whose visit_count is at least 1
\* and a total that is at least 1 and at least that visit_count: the round is
\* counted before backpropogation and each node of the walk is counted before
\* its value is recomputed, so every value but the initial one of a node never
\* visited comes from a division by a positive count and a logarithm of a
\* positive total.
C19_ScoreArgumentsDefined ==
    /\ [](\A n \in 1 .. Len(nodes) :
            /\ 0 <= nodes[n].visit_count
            /\ nodes[n].visit_count <= total_visit_count
            /\ (nodes[n].value = FltMax) = (nodes[n].visit_count = 0))
    /\ [][pc = "backprop" =>
             /\ total_visit_count' >= 1
             /\ \A n \in 1 .. Len(nodes) :
                    AtOrBelow(nodes, greedy_node, n) =>
                        /\ nodes'[n].visit_count >= 1
                        /\ total_visit_count' >= nodes'[n].visit_count
                        /\ nodes'[n] = compute_value(nodes'[n],
                                                     total_visit_count')]_vars

C19_Witness ==
    /\ pc = "loop"
    /\ total_visit_count >= 2
    /\ \E n \in 2 .. Len(nodes) :
          /\ nodes[n].visit_count = total_visit_count
          /\ nodes[n].value # FltMax

=============================================================================
